---- MODULE Spec2Model ----
(***************************************************************************)
(* The per-channel upload rate limit of the uploader service.              *)
(*                                                                         *)
(* pkg/uploader/http.go holds the gate (HttpServer.ChannelUploadRateLimit) *)
(* and the construction of the limiter (NewChannelUploadRateLimiter).  The *)
(* limiter itself, common.RateLimiter, lives in pkg/common; its token      *)
(* bucket and its atomic evaluate-and-store primitive are modelled from    *)
(* sections 3 to 5 of the specification.                                   *)
(*                                                                         *)
(* Time is counted in ticks of 1/TicksPerSec second and tokens in units of *)
(* 1/TicksPerSec token, so that a bucket can hold a fraction of a token:   *)
(* one tick at rps tokens per second adds rps units, one admission costs   *)
(* Unit units.  The expiration, configured in hours, is scaled down: an    *)
(* hour lasts Hour ticks, so that entries expire within the horizon.       *)
(***************************************************************************)
EXTENDS Integers, Sequences, FiniteSets

\* ---------------------------------------------------------------- bounds
\* Spec: two concurrent callers, two channels.
MaxClock == 2
MaxSkew == 1
MaxRps == 2
MaxBurst == 2
Hour == 2
MaxCalls == 2
NumCallers == 2
TicksPerSec == 2
\* SpecLog: as Spec, longer histories, admissions logged by instant.
LogMaxCalls == 3
\* SpecSeq: one caller, one channel, longer histories and a larger bucket.
SeqMaxClock == 4
SeqMaxRps == 1
SeqMaxBurst == 5
SeqMaxExpirationHour == 3
SeqMaxCalls == 9

\* One token, in units.
Unit == TicksPerSec
\* The channel IDs that requests carry, and the requests served at a time.
ChannelIDs == {2, 42}
Callers == 1..NumCallers
\* A key with no stored entry.
NoEntry == [present |-> FALSE, tokens |-> 0, last_refill |-> 0, expire_at |-> 0]
NoKey == <<>>
None == "none"

Min(a, b) == IF a < b THEN a ELSE b
Max(a, b) == IF a > b THEN a ELSE b

\* ------------------------------------------------------------- the key
Digit(d) == <<"0", "1", "2", "3", "4", "5", "6", "7", "8", "9">>[d + 1]

RECURSIVE FormatUintBase10(_)
FormatUintBase10(n) ==
    IF n < 10 THEN <<Digit(n)>>
    ELSE FormatUintBase10(n \div 10) \o <<Digit(n % 10)>>

\* A key derivation that keeps only the last digit of the channel ID.
KeyOfLastDigit(channelID) == <<Digit(channelID % 10)>>

\* strconv.FormatUint(channelID, 10), the key handed to Allow.
KeyOf(channelID) == FormatUintBase10(channelID)

\* The keys the gate can ask the limiter about.
Keys == {KeyOf(c) : c \in ChannelIDs}

\* ------------------------------------------------------- the token bucket
\* The state the algorithm starts from: a key with no entry is a full bucket.
Prior(entry, now, burst) ==
    IF entry = NoEntry THEN [tokens |-> burst * Unit, last_refill |-> now]
    ELSE [tokens |-> entry.tokens, last_refill |-> entry.last_refill]

\* Elapsed ticks since the last refill, clamped to zero.
Elapsed(entry, now, burst) == Max(0, now - Prior(entry, now, burst).last_refill)

\* A refill that does not cap the bucket at burst.
RefillUncapped(entry, now, rps, burst) ==
    Prior(entry, now, burst).tokens + Elapsed(entry, now, burst) * rps

\* tokens = min(burst, tokens + elapsed * rps)
Refill(entry, now, rps, burst) ==
    Min(burst * Unit,
        Prior(entry, now, burst).tokens + Elapsed(entry, now, burst) * rps)

\* An admission test that admits whenever any fraction of a token is left.
DecideAnyFraction(entry, now, rps, burst) == Refill(entry, now, rps, burst) > 0

\* allow = (tokens >= 1)
Decide(entry, now, rps, burst) == Refill(entry, now, rps, burst) >= Unit

\* A bucket update that admits without taking the token.
EvaluateNoConsume(entry, now, rps, burst) ==
    [tokens |-> Refill(entry, now, rps, burst), last_refill |-> now]

\* evaluate(state_or_absent, now, rps, burst): the state to persist.
Evaluate(entry, now, rps, burst) ==
    [tokens |-> IF Decide(entry, now, rps, burst)
                   THEN Refill(entry, now, rps, burst) - Unit
                   ELSE Refill(entry, now, rps, burst),
     last_refill |-> now]

\* The expiry the store applies with every update: ttl from now on.
Expiry(clk, ttl) == clk + ttl

\* ---------------------------------------------------------------- the gate
\* A gate that lets the request through when the store cannot be asked.
GateStatusFailOpen(ok, allow, err) ==
    IF ~ok THEN 401
    ELSE IF err THEN 200
    ELSE IF ~allow THEN 429
    ELSE 200

\* The outcome of ChannelUploadRateLimit: 200 stands for c.Next().
GateStatus(ok, allow, err) ==
    IF ~ok THEN 401
    ELSE IF err THEN 500
    ELSE IF ~allow THEN 429
    ELSE 200

VARIABLES
    config,   \* the configuration the service was started with
    clock,    \* true time, in ticks
    store,    \* shared store: key -> entry or NoEntry
    req,      \* per caller: its request in flight, if any
    out,      \* the answer the gate gave last
    calls,    \* number of Allow calls issued so far
    hist,     \* per key: the current run of calls the store evaluated
    log,      \* per key: admissions by instant, when the scenario logs them
    scn       \* the scenario explored: callers, channels, horizon

vars == <<config, clock, store, req, out, calls, hist, log, scn>>

Instants == 0..Max(MaxClock, SeqMaxClock)

\* A construction that hands rps and burst over in the wrong order.
NewLimiterSwapped(cfg) ==
    [rps |-> cfg.Burst, burst |-> cfg.Rps, ttl |-> cfg.ExpirationHour * Hour]

\* A construction that takes the number of hours for a duration: a few
\* nanoseconds, no tick at all.
NewLimiterNoHours(cfg) ==
    [rps |-> cfg.Rps, burst |-> cfg.Burst, ttl |-> 0]

\* The limiter the service builds from its configuration.
NewChannelUploadRateLimiter(cfg) ==
    [rps |-> cfg.Rps, burst |-> cfg.Burst, ttl |-> cfg.ExpirationHour * Hour]

rps == NewChannelUploadRateLimiter(config).rps
burst == NewChannelUploadRateLimiter(config).burst
ttl == NewChannelUploadRateLimiter(config).ttl

IdleReq ==
    [pc |-> "idle", chan |-> 0, key |-> NoKey, execs |-> 0, allow |-> FALSE]

NoAnswer ==
    [ok |-> FALSE, allow |-> FALSE, err |-> FALSE, execs |-> 0, status |-> 0]

NoHistory ==
    [runLen |-> 0, runAdm |-> 0, runFresh |-> FALSE, prevAllow |-> None,
     prevTokens |-> 0, wait |-> 0, lastAllow |-> None]

NoLog == [created |-> 0, admitAt |-> [t \in Instants |-> 0]]

\* The state once the limiter is constructed from the configuration and
\* nothing has been stored yet.
Constructed ==
    /\ clock = 0
    /\ store = [k \in Keys |-> NoEntry]
    /\ req = [r \in Callers |-> IdleReq]
    /\ out = NoAnswer
    /\ calls = 0
    /\ hist = [k \in Keys |-> NoHistory]
    /\ log = [k \in Keys |-> NoLog]

Init ==
    /\ config \in [Rps : 0..MaxRps, Burst : 0..MaxBurst, ExpirationHour : {1}]
    /\ scn = [callers |-> Callers, chans |-> ChannelIDs,
              maxCalls |-> MaxCalls, maxClock |-> MaxClock,
              logged |-> FALSE]
    /\ Constructed

InitLog ==
    /\ config \in [Rps : 0..MaxRps, Burst : 0..MaxBurst, ExpirationHour : {1}]
    /\ scn = [callers |-> Callers, chans |-> ChannelIDs,
              maxCalls |-> LogMaxCalls, maxClock |-> MaxClock,
              logged |-> TRUE]
    /\ Constructed

InitSeq ==
    /\ config \in [Rps : 0..SeqMaxRps, Burst : {1, SeqMaxBurst},
                    ExpirationHour : {1, SeqMaxExpirationHour}]
    /\ scn = [callers |-> {1}, chans |-> {42},
              maxCalls |-> SeqMaxCalls, maxClock |-> SeqMaxClock,
              logged |-> FALSE]
    /\ Constructed

\* The answer of the gate for a request with or without channel ID (ok),
\* given what Allow returned; execs tells how often its script was evaluated.
Answered(q, ok, allow, err) ==
    [ok |-> ok, allow |-> allow, err |-> err, execs |-> q.execs,
     status |-> GateStatus(ok, allow, err)]

\* A request without a channel ID in its context: 401, Allow is not called.
ArriveNoChannel(r) ==
    /\ req[r].pc = "idle"
    /\ out' = Answered(IdleReq, FALSE, FALSE, FALSE)
    /\ UNCHANGED <<config, clock, store, req, calls, hist, log, scn>>

\* A request with a channel ID: the gate calls Allow with the key, and the
\* limiter sends one evaluate-and-store request.
ArriveWithChannel(r) ==
    /\ req[r].pc = "idle"
    /\ calls < scn.maxCalls
    /\ \E ch \in scn.chans :
         req' = [req EXCEPT ![r] =
                   [IdleReq EXCEPT !.pc = "calling", !.chan = ch,
                                   !.key = KeyOf(ch)]]
    /\ calls' = calls + 1
    /\ UNCHANGED <<config, clock, store, out, hist, log, scn>>

\* The history kept for the key of a call the store evaluates.  A run is a
\* maximal sequence of calls evaluated with zero elapsed time; it starts at
\* the call that creates the entry or finds time elapsed.
Record(h, entry, now, allow) ==
    LET newRun == entry = NoEntry \/ Elapsed(entry, now, burst) > 0
        adm == IF allow THEN 1 ELSE 0
    IN  [runLen |-> IF newRun THEN 1 ELSE h.runLen + 1,
         runAdm |-> IF newRun THEN adm ELSE h.runAdm + adm,
         runFresh |-> IF newRun THEN entry = NoEntry ELSE h.runFresh,
         prevAllow |-> IF newRun THEN h.lastAllow ELSE h.prevAllow,
         prevTokens |-> IF newRun THEN entry.tokens ELSE h.prevTokens,
         wait |-> IF newRun THEN Elapsed(entry, now, burst) ELSE h.wait,
         lastAllow |-> IF allow THEN "admit" ELSE "deny"]

\* The log kept for the key of a call the store evaluates: how often the
\* entry was created, and how many calls were admitted at each now.
Logged(l, entry, now, allow) ==
    [created |-> l.created + (IF entry = NoEntry THEN 1 ELSE 0),
     admitAt |-> [l.admitAt EXCEPT ![now] = @ + (IF allow THEN 1 ELSE 0)]]

\* The request once the store has evaluated it: the decision on its way back.
Evaluated(q, allow) ==
    [q EXCEPT !.pc = "executed", !.allow = allow, !.execs = q.execs + 1]

\* The store evaluates the script for one request: read, decide and write
\* (with the ttl) in one step.  The now of the call is the reading of a
\* clock that is up to MaxSkew ticks behind the true time.
StoreEval(r) ==
    /\ req[r].pc = "calling"
    /\ \E skew \in 0..MaxSkew :
         /\ clock - skew >= 0
         /\ LET k == req[r].key
                e == store[k]
                n == clock - skew
            IN  /\ store' = [store EXCEPT ![k] =
                               [present |-> TRUE,
                                tokens |-> Evaluate(e, n, rps, burst).tokens,
                                last_refill |->
                                    Evaluate(e, n, rps, burst).last_refill,
                                expire_at |-> Expiry(clock, ttl)]]
                /\ req' = [req EXCEPT ![r] =
                             Evaluated(@, Decide(e, n, rps, burst))]
                /\ hist' = [hist EXCEPT ![k] =
                            Record(@, e, n, Decide(e, n, rps, burst))]
                /\ log' = IF scn.logged
                              THEN [log EXCEPT ![k] =
                                      Logged(@, e, n, Decide(e, n, rps, burst))]
                              ELSE log
    /\ UNCHANGED <<config, clock, out, calls, scn>>

\* The response reaches the limiter: Allow returns the decision, no error,
\* and the gate answers.
Respond(r) ==
    /\ req[r].pc = "executed"
    /\ out' = Answered(req[r], TRUE, req[r].allow, FALSE)
    /\ req' = [req EXCEPT ![r] = IdleReq]
    /\ UNCHANGED <<config, clock, store, calls, hist, log, scn>>

\* A limiter that sends the request again when the call fails.
FailedRetry(q) == [req |-> [q EXCEPT !.pc = "calling"], out |-> NoAnswer]

\* What a failed or canceled Allow call leaves: the error, allowed = false,
\* the gate's answer, and nothing sent again.
Failed(q) == [req |-> IdleReq, out |-> Answered(q, TRUE, FALSE, TRUE)]

\* The store is unreachable or answers malformed: Allow returns an error.
StoreError(r) ==
    /\ req[r].pc = "calling"
    /\ req' = [req EXCEPT ![r] = Failed(req[r]).req]
    /\ out' = Failed(req[r]).out
    /\ UNCHANGED <<config, clock, store, calls, hist, log, scn>>

\* The context is canceled or its deadline expires before the round trip
\* completes, the script evaluated or not: Allow returns an error.
Cancel(r) ==
    /\ req[r].pc \in {"calling", "executed"}
    /\ req' = [req EXCEPT ![r] = Failed(req[r]).req]
    /\ out' = Failed(req[r]).out
    /\ UNCHANGED <<config, clock, store, calls, hist, log, scn>>

\* Time passes by one tick; the store drops the entries whose ttl is over.
Tick ==
    /\ clock < scn.maxClock
    /\ clock' = clock + 1
    /\ store' = [k \in Keys |->
                   IF store[k].present /\ store[k].expire_at <= clock + 1
                      THEN NoEntry ELSE store[k]]
    /\ UNCHANGED <<config, req, out, calls, hist, log, scn>>

Next ==
    \/ \E r \in scn.callers : ArriveNoChannel(r)
    \/ \E r \in scn.callers : ArriveWithChannel(r)
    \/ \E r \in scn.callers : StoreEval(r)
    \/ \E r \in scn.callers : Respond(r)
    \/ \E r \in scn.callers : StoreError(r)
    \/ \E r \in scn.callers : Cancel(r)
    \/ Tick

Spec == Init /\ [][Next]_vars

SpecSeq == InitSeq /\ [][Next]_vars

SpecLog == InitLog /\ [][Next]_vars

\* ------------------------------------------------------------ the claims
\* Tokens a run started with: a full bucket for a new entry, else the
\* tokens the previous call left plus the refill of the wait, capped.
RunStart(k) ==
    IF hist[k].runFresh THEN burst * Unit
    ELSE Min(burst * Unit, hist[k].prevTokens + hist[k].wait * rps)

Running(k) == store[k].present /\ hist[k].runLen > 0

C2_FreshBurst ==
    /\ \A k \in Keys :
         (hist[k].runFresh /\ hist[k].runLen > 0) =>
             /\ hist[k].runAdm = Min(hist[k].runLen, config.Burst)
             /\ (hist[k].lastAllow = "admit") <=> (hist[k].runLen <= config.Burst)
    /\ out.status = 429 => (~out.err /\ out.execs = 1)

\* burst + 1 calls on a fresh key: burst admitted, the last denied and
\* answered 429 without error.
C2_Witness ==
    \E k \in Keys :
        /\ burst >= 1
        /\ hist[k].runFresh /\ hist[k].runLen = burst + 1
        /\ hist[k].runAdm = burst /\ hist[k].lastAllow = "deny"
        /\ out.status = 429 /\ ~out.err

\* Calls admitted on key k that supplied a now between t1 and t2.
RECURSIVE AdmittedIn(_, _, _)
AdmittedIn(k, t1, t2) ==
    IF t1 > t2 THEN 0 ELSE log[k].admitAt[t1] + AdmittedIn(k, t1 + 1, t2)

\* C3: for every key and every two instants t1 <= t2, the calls admitted
\* with a now between t1 and t2 number at most burst + rps * (t2 - t1),
\* whatever sequence of now values the calls supply.  Stated for the keys
\* whose entry was created once and has not expired since.
C3_RateBound ==
    \A k \in Keys : \A t1, t2 \in Instants :
        (t1 <= t2 /\ log[k].created <= 1) =>
            AdmittedIn(k, t1, t2) * Unit <= burst * Unit + rps * (t2 - t1)

\* C4 as stated: after a denied call and a wait with no calls on the key,
\* the calls that follow back to back admit at most min(burst,
\* floor(wait * rps)).  Stated for the entries that outlived the wait.
C4_RefillFloor ==
    \A k \in Keys :
        (hist[k].runLen > 0 /\ hist[k].prevAllow = "deny" /\ ~hist[k].runFresh) =>
            /\ hist[k].runAdm <= burst
            /\ hist[k].runAdm * Unit <= hist[k].wait * rps

\* C4 amended: after a denied call that left f < 1 token and a wait with no
\* calls on the key, the calls that follow back to back admit exactly
\* min(burst, floor(f + wait * rps)) calls and then deny; when the entry
\* expired during the wait they admit burst calls and then deny.
C4_RefillWithFraction ==
    \A k \in Keys :
        (hist[k].runLen > 0 /\ hist[k].prevAllow = "deny") =>
            /\ hist[k].prevTokens < Unit
            /\ hist[k].runAdm = Min(hist[k].runLen, RunStart(k) \div Unit)
            /\ (hist[k].lastAllow = "deny") <=> (hist[k].runLen > RunStart(k) \div Unit)

\* rps = 1, burst = 5: five calls admitted, the sixth denied, and after two
\* seconds two calls admitted and the third denied.
C4_Witness ==
    \E k \in Keys :
        /\ rps = 1 /\ burst = 5
        /\ hist[k].prevAllow = "deny" /\ ~hist[k].runFresh
        /\ hist[k].prevTokens = 0 /\ hist[k].wait = 2 * TicksPerSec
        /\ hist[k].runLen = 3 /\ hist[k].runAdm = 2 /\ hist[k].lastAllow = "deny"

Answer == out # NoAnswer

\* C5: a request goes on to the upload handler only with a channel ID and
\* an admission without error; no channel ID is answered 401 without
\* calling Allow, an error 500, a denial without error 429.
C5_GateOutcome ==
    /\ [](Answer =>
            /\ out.status \in {200, 401, 429, 500}
            /\ (out.status = 200) <=> (out.ok /\ out.allow /\ ~out.err)
            /\ (out.status = 401) <=> ~out.ok
            /\ (out.status = 500) <=> (out.ok /\ out.err)
            /\ (out.status = 429) <=> (out.ok /\ ~out.err /\ ~out.allow)
            /\ (out.status = 401) => out.execs = 0
            /\ (out.status \in {200, 429}) => out.execs = 1)
    /\ [][(out' # out /\ out'.status = 401) =>
             (calls' = calls /\ store' = store /\ req' = req)]_vars

\* A request that failed closed: its script was evaluated and admitted it,
\* the response was lost, and the gate answered 500.
C5_Witness ==
    \E k \in Keys :
        /\ out.status = 500 /\ out.err /\ out.execs = 1
        /\ hist[k].lastAllow = "admit" /\ hist[k].runLen = 1

\* C6 as stated: a call that was canceled left the bucket as it found it,
\* that is, its script was not evaluated.
C6_CancelLeavesBucket == out.err => out.execs = 0

\* C6 amended: a canceled or failed call returns an error and allowed =
\* false, is answered 500, and is never sent again; its script was
\* evaluated either not at all or once as a whole, and the step that ends
\* the call changes nothing in the store.
C6_CancelAllOrNothing ==
    /\ [](/\ \A r \in Callers : req[r].execs <= 1
          /\ out.execs <= 1
          /\ out.err => (~out.allow /\ out.status = 500))
    /\ [][\A r \in Callers :
            (req[r].pc \in {"calling", "executed"} /\ out' # out /\ out'.err) =>
                (req'[r].pc \in {"idle", req[r].pc}
                 /\ store' = store /\ calls' = calls)]_vars

\* A call canceled after the store evaluated its script, with an admitted
\* token taken.
C6_Witness ==
    \E k \in Keys :
        /\ out.err /\ out.execs = 1
        /\ store[k].present /\ store[k].tokens < burst * Unit

\* C7: every stored entry has 0 <= tokens <= burst.
C7_TokensInRange ==
    \A k \in Keys :
        store[k].present =>
            (0 <= store[k].tokens /\ store[k].tokens <= burst * Unit)

\* An entry whose refill was capped at burst.
C7_Witness ==
    \E k \in Keys :
        /\ Running(k) /\ ~hist[k].runFresh /\ burst >= 1
        /\ hist[k].prevTokens + hist[k].wait * rps > burst * Unit

\* C8: an entry is stored only while less than the configured ttl has
\* passed since its last update; every evaluation, admitted or denied, sets
\* the expiry to the configured ttl from now; the call that re-creates an
\* entry finds a full bucket and is admitted when burst >= 1.
C8_TtlLifecycle ==
    /\ [](\A k \in Keys :
            /\ store[k].present =>
                   /\ clock < store[k].expire_at
                   /\ store[k].expire_at <= clock + config.ExpirationHour * Hour
            /\ (hist[k].runFresh /\ hist[k].runLen = 1 /\ burst >= 1) =>
                   /\ hist[k].lastAllow = "admit"
                   /\ store[k].present => store[k].tokens = (burst - 1) * Unit)
    /\ [][\A r \in Callers :
            (req[r].pc = "calling" /\ req'[r].pc = "executed") =>
                /\ store'[req[r].key].present
                /\ store'[req[r].key].expire_at =
                       clock + config.ExpirationHour * Hour]_vars

\* A key whose only token was taken, whose entry then expired, and which is
\* admitted again on a new entry.
C8_Witness ==
    \E k \in Keys :
        /\ burst = 1 /\ calls = 2
        /\ hist[k].runFresh /\ hist[k].runLen = 1 /\ hist[k].prevAllow = "admit"
        /\ hist[k].lastAllow = "admit" /\ store[k].present

\* C9: calls on distinct channels use distinct keys, and a step changes the
\* entry of a key only by evaluating a call on that key or by expiring it.
C9_KeyIsolation ==
    /\ [](\A r1, r2 \in Callers :
            (req[r1].pc = "calling" /\ req[r2].pc = "calling"
             /\ req[r1].chan # req[r2].chan) => req[r1].key # req[r2].key)
    /\ [](\A c1, c2 \in ChannelIDs : c1 # c2 => KeyOf(c1) # KeyOf(c2))
    /\ [][\A k \in Keys :
            store'[k] # store[k] =>
                \/ (clock' # clock /\ ~store'[k].present)
                \/ \E r \in Callers :
                       /\ req[r].pc = "calling" /\ req'[r].pc = "executed"
                       /\ KeyOf(req[r].chan) = k /\ req[r].key = k]_vars

\* One channel has spent its only token while the first call on the other
\* finds a full bucket and is admitted.
C9_Witness ==
    \E k1, k2 \in Keys :
        /\ k1 # k2 /\ burst = 1
        /\ store[k1].present /\ store[k1].tokens = 0
        /\ store[k2].present /\ hist[k2].runFresh /\ hist[k2].runLen = 1
        /\ hist[k2].lastAllow = "admit"

\* C10: with burst = 0 no call is ever admitted; with rps = 0 and burst >= 1
\* a key admits burst calls in all, whatever time passes.
C10_ZeroConfig ==
    \A k \in Keys :
        /\ burst = 0 => AdmittedIn(k, 0, scn.maxClock) = 0
        /\ (rps = 0 /\ burst >= 1) => AdmittedIn(k, 0, scn.maxClock) <= burst
====
